---- MODULE Spec2Model ----
(***************************************************************************)
(* Model of the stock screening pipeline: the price-history cache          *)
(* (rising_stock.py update_market_data), the fundamentals cache            *)
(* (get_stock_info_data), the stage-1 screen (analyze_stage1) and the      *)
(* volume-analysis loop of mystock_volume.py.                              *)
(***************************************************************************)
EXTENDS Integers, Sequences, FiniteSets, Bags, TLC

VARIABLES
    today,            \* datetime.now().date(), as a day number
    provLast,         \* last trading day the price provider has rows for
    DAILY_DATA_FILE,  \* sp500_daily.pkl: [st, df]
    mk_data,          \* what the last update_market_data call returned
    pcall,            \* how the last update_market_data call of the day went
    current_time,     \* datetime.now(), in days
    STOCK_INFO_FILE,  \* stockinfo.pkl: [st, df]
    info_df,          \* what the last get_stock_info_data call returned
    icall,            \* the last get_stock_info_data call: what it loaded, asked, fetched
    market,           \* the snapshot handed to analyze_stage1
    s_tickers,        \* the tickers handed to analyze_stage1
    stage1_df,        \* what analyze_stage1 returned
    s_pc,             \* "input" before the screen has run, "done" after
    v_tickers,        \* mystock_volume: tickers, the codes typed into the text area
    use_d_minus_1,    \* mystock_volume: the D-1 checkbox
    v_i,              \* mystock_volume: i, the index of the next ticker of the loop
    v_results,        \* mystock_volume: results, the rows collected so far
    vlog,             \* mystock_volume: per ticker, what was fetched and said
    v_pc,             \* mystock_volume: "loop", then "shown"
    financials,       \* fetch_one: stock.quarterly_financials
    turnaround_status,\* fetch_one: the status computed from it
    t_pc,             \* "input" before the status is computed, "done" after
    joined_df,        \* the UI script's final_df after the join of lines 317-331
    filt,             \* the filter block's inputs: final_df and the widgets' values
    view,             \* the filter block's view
    f_pc              \* "input" before the filter block has run, "done" after

price_vars == <<today, provLast, DAILY_DATA_FILE, mk_data, pcall>>

info_vars == <<current_time, STOCK_INFO_FILE, info_df, icall>>

stage1_vars == <<market, s_tickers, stage1_df, s_pc>>

vol_vars == <<v_tickers, use_d_minus_1, v_i, v_results, vlog, v_pc>>

turn_vars == <<financials, turnaround_status, t_pc>>

join_vars == <<joined_df>>

view_vars == <<filt, view, f_pc>>

ui_vars == <<turn_vars, join_vars, view_vars>>

vars == <<price_vars, info_vars, stage1_vars, vol_vars, ui_vars>>

----------------------------------------------------------------------------
(* Bounds *)

MaxDay == 3

MaxNow == 9

MaxReq == 2

MaxTickers == 2

PriceSymbols == {"A", "B"}

----------------------------------------------------------------------------
(* Data frames: a set of symbol columns and a sequence of dated rows.       *)
(* A cell holds NaN or the value the provider served, identified by the    *)
(* day on which it was fetched (a later fetch of the same date may carry   *)
(* revised values).                                                        *)

NaN == 0

NoDate == 0

EmptyDF == [cols |-> {}, rows |-> <<>>]

\* DataFrame.empty: no rows or no columns
IsEmpty(df) == df.cols = {} \/ df.rows = <<>>

Dates(df) == {df.rows[i].d : i \in 1..Len(df.rows)}

\* the cell of symbol s on date d (NaN when there is no such row)
Cell(df, d, s) ==
    IF \E i \in 1..Len(df.rows) : df.rows[i].d = d
    THEN LET i == CHOOSE i \in 1..Len(df.rows) :
                     /\ df.rows[i].d = d
                     /\ \A j \in (i+1)..Len(df.rows) : df.rows[j].d # d
         IN df.rows[i].v[s]
    ELSE NaN

\* pickle.load of the cache file; a missing or unreadable file leaves the
\* empty frame (lines 83-87)
market_data(f) == IF f.st = "ok" THEN f.df ELSE EmptyDF

\* yf.download: one column per requested symbol, NaN for a symbol whose fetch
\* failed, rows for the provider's trading days in the window; no rows when
\* nothing was fetched
download(syms, from, to, fails, val) ==
    LET ok == syms \ fails
    IN [cols |-> syms,
        rows |-> IF ok = {} \/ from > to THEN <<>>
                 ELSE [i \in 1..(to - from + 1) |->
                         [d |-> from + i - 1,
                          v |-> [s \in PriceSymbols |->
                                   IF s \in ok THEN val ELSE NaN]]]]

\* pd.concat([a, b]): rows of b appended, columns united
concat(a, b) == [cols |-> a.cols \cup b.cols, rows |-> a.rows \o b.rows]

RECURSIVE KeepRows(_, _, _)
KeepRows(rows, keep(_), i) ==
    IF i > Len(rows) THEN <<>>
    ELSE (IF keep(i) THEN <<rows[i]>> ELSE <<>>) \o KeepRows(rows, keep, i + 1)

\* df[~df.index.duplicated(keep='first')]
duplicated_keep_first(df) ==
    LET keep(i) == \A j \in 1..(i-1) : df.rows[j].d # df.rows[i].d
    IN [cols |-> df.cols, rows |-> KeepRows(df.rows, keep, 1)]

\* df[~df.index.duplicated(keep='last')] (line 120)
duplicated_keep_last(df) ==
    LET keep(i) == \A j \in (i+1)..Len(df.rows) : df.rows[j].d # df.rows[i].d
    IN [cols |-> df.cols, rows |-> KeepRows(df.rows, keep, 1)]

RECURSIVE SortedDates(_)
SortedDates(S) ==
    IF S = {} THEN <<>>
    ELSE LET m == CHOOSE x \in S : \A y \in S : x <= y
         IN <<m>> \o SortedDates(S \ {m})

\* a.join(b, how='outer'): the sorted union of the two indexes, b's columns
\* beside a's (line 122)
join_outer(a, b) ==
    LET ds == SortedDates(Dates(a) \cup Dates(b))
    IN [cols |-> a.cols \cup b.cols,
        rows |-> [i \in 1..Len(ds) |->
                    [d |-> ds[i],
                     v |-> [s \in PriceSymbols |->
                              IF s \in b.cols THEN Cell(b, ds[i], s)
                              ELSE Cell(a, ds[i], s)]]]]

----------------------------------------------------------------------------
(* update_market_data, lines 82-126 *)

existing_tickers(md) == md.cols

last_date(md) == md.rows[Len(md.rows)].d

new_tickers(md, tickers) ==
    IF IsEmpty(md) THEN tickers ELSE tickers \ existing_tickers(md)

update_tickers(md, tickers) ==
    IF IsEmpty(md) THEN {} ELSE tickers \cap existing_tickers(md)

\* line 100, None when the cache is empty (line 92)
start_date_for_update(md, td) ==
    IF IsEmpty(md) THEN NoDate
    ELSE IF last_date(md) < td THEN last_date(md) + 1 ELSE NoDate

\* the start of the incremental window a call asks for, NoDate when it asks
\* for none (the guard of line 111)
requested_start(md, tickers, td) ==
    IF update_tickers(md, tickers) # {} /\ start_date_for_update(md, td) # NoDate
       /\ start_date_for_update(md, td) <= td
    THEN start_date_for_update(md, td) ELSE NoDate

\* the symbols a call asks the provider for (lines 108 and 111)
attempted(md, tickers, td) ==
    new_tickers(md, tickers)
      \cup (IF requested_start(md, tickers, td) # NoDate
            THEN update_tickers(md, tickers) ELSE {})

\* line 110: period='1y' reaches back over every day of the model
new_df(md, tickers, td, pl, fails) ==
    IF new_tickers(md, tickers) # {}
    THEN download(new_tickers(md, tickers), 1, pl, fails, td)
    ELSE EmptyDF

\* lines 111-113. The provider is not bound to clip its answer at `start`:
\* with early it also serves the row of the day before, the overlap that
\* line 120 de-duplicates.
update_df(md, tickers, td, pl, fails, early) ==
    LET start == requested_start(md, tickers, td)
    IN IF start # NoDate
       THEN download(update_tickers(md, tickers),
                     IF early THEN start - 1 ELSE start, pl, fails, td)
       ELSE EmptyDF

\* lines 115-122
final_df(md, tickers, td, pl, fails, early) ==
    LET n == new_df(md, tickers, td, pl, fails)
        u == update_df(md, tickers, td, pl, fails, early)
    IN IF IsEmpty(md) THEN n
       ELSE LET f1 == IF ~IsEmpty(u) THEN duplicated_keep_last(concat(md, u))
                      ELSE md
            IN IF ~IsEmpty(n) THEN join_outer(f1, n) ELSE f1

Raised == [cols |-> {}, rows |-> <<>>, raised |-> TRUE]

NoCall == [oc |-> "none", upd |-> EmptyDF, dup |-> {}, won |-> FALSE]

\* open(DAILY_DATA_FILE, 'wb') truncates the file in place, pickle.dump then
\* writes into it (line 125). oc is how the write ends: "ok"; "open_failed"
\* (open raises, the file is untouched); "dump_failed" (the write stops
\* after the truncation: the file is left empty or partial).
write_file(f, df, oc) ==
    CASE oc = "ok" -> [st |-> "ok", df |-> df]
      [] oc = "open_failed" -> f
      [] oc = "dump_failed" -> [st |-> "corrupt", df |-> EmptyDF]

update_market_data(tickers, fails, early, oc) ==
    LET md == market_data(DAILY_DATA_FILE)
        fin == final_df(md, tickers, today, provLast, fails, early)
        u == update_df(md, tickers, today, provLast, fails, early)
        wrote == ~IsEmpty(fin)
    IN /\ (~wrote => oc = "ok")
       /\ DAILY_DATA_FILE' = IF wrote THEN write_file(DAILY_DATA_FILE, fin, oc)
                             ELSE DAILY_DATA_FILE
       /\ mk_data' = IF oc = "ok" THEN fin ELSE Raised
       /\ pcall' = [oc |-> oc,
                    upd |-> IF oc = "ok" THEN u ELSE EmptyDF,
                    dup |-> IF oc = "ok" THEN Dates(u) \cap Dates(md) ELSE {},
                    won |-> /\ oc = "ok"
                            /\ \E d \in Dates(u) \cap Dates(md) : \E s \in u.cols :
                                 Cell(u, d, s) \notin {NaN, Cell(md, d, s)}]
       /\ UNCHANGED <<today, provLast>>
       /\ UNCHANGED <<info_vars, stage1_vars, vol_vars, ui_vars>>

\* the "Load & Update Data" button (lines 294-300) calls with a non-empty list
LoadAndUpdate ==
    LET md == market_data(DAILY_DATA_FILE)
    IN \E tickers \in (SUBSET PriceSymbols) \ {{}} :
         \E fails \in SUBSET attempted(md, tickers, today) :
           \E early \in IF requested_start(md, tickers, today) # NoDate
                         THEN BOOLEAN ELSE {FALSE} :
             \E oc \in {"ok", "open_failed", "dump_failed"} :
               update_market_data(tickers, fails, early, oc)

\* midnight passes
NextDay ==
    /\ today < MaxDay
    /\ today' = today + 1
    /\ pcall' = NoCall
    /\ UNCHANGED <<provLast, DAILY_DATA_FILE, mk_data>>
    /\ UNCHANGED <<info_vars, stage1_vars, vol_vars, ui_vars>>

\* the exchange closes a trading day: the provider has rows for it
NewTradingDay ==
    /\ provLast < today
    /\ provLast' = provLast + 1
    /\ pcall' = NoCall
    /\ UNCHANGED <<today, DAILY_DATA_FILE, mk_data>>
    /\ UNCHANGED <<info_vars, stage1_vars, vol_vars, ui_vars>>

----------------------------------------------------------------------------
(* get_stock_info_data, lines 161-282 *)

InfoSymbols == {"A", "B"}

\* timedelta(days=7), line 174
TTL_DAYS == 7

\* timedelta(days=365), line 178
LEGACY_AGE_DAYS == 365

\* the columns of a frame written by the present code that the loader tests
\* for (lines 177, 199); Ticker is always there
AllCols == {"LastUpdated", "Name", "RecMean"}

NaT == -1000

\* a frame of records: its columns and its rows. Nothing in
\* get_stock_info_data reads the order of the rows, so they are kept as a bag.
EmptyInfo == [cols |-> {}, rows |-> EmptyBag]

\* pickle.load of the cache file, the empty frame when it is missing or
\* unreadable (lines 166-171)
cached_df(f) == IF f.st = "ok" THEN f.df ELSE EmptyInfo

Range(q) == {q[i] : i \in 1..Len(q)}

RECURSIVE SeqToBag(_)
SeqToBag(q) ==
    IF q = <<>> THEN EmptyBag ELSE SetToBag({Head(q)}) (+) SeqToBag(Tail(q))

\* the rows of bag B changed by f
RECURSIVE MapBag(_, _, _)
MapBag(B, f(_), S) ==
    IF S = {} THEN EmptyBag
    ELSE LET r == CHOOSE x \in S : TRUE
         IN [x \in {f(r)} |-> B[r]] (+) MapBag(B, f, S \ {r})

\* the rows of bag B that satisfy keep
FilterBag(B, keep(_)) ==
    LET S == {r \in BagToSet(B) : keep(r)} IN [r \in S |-> B[r]]

info_tickers(df) == {r.Ticker : r \in BagToSet(df.rows)}

\* lines 177-178: a frame without the column gets it, a year old
init_last_updated(df, now) ==
    IF df.rows # EmptyBag /\ "LastUpdated" \notin df.cols
    THEN [cols |-> df.cols \cup {"LastUpdated"},
          rows |-> MapBag(df.rows,
                          LAMBDA r : [r EXCEPT !.LastUpdated = now - LEGACY_AGE_DAYS],
                          BagToSet(df.rows))]
    ELSE df

one_week_ago(now) == now - TTL_DAYS

\* a record is stale from exactly seven days on
expired_le(df, now) ==
    IF "LastUpdated" \in df.cols
    THEN {r.Ticker : r \in {x \in BagToSet(df.rows) :
            x.LastUpdated # NaT /\ x.LastUpdated <= one_week_ago(now)}}
    ELSE {}

\* lines 190-195
expired(df, now) ==
    IF "LastUpdated" \in df.cols
    THEN {r.Ticker : r \in {x \in BagToSet(df.rows) :
            x.LastUpdated # NaT /\ x.LastUpdated < one_week_ago(now)}}
    ELSE {}

\* lines 198-200
missing_schema(df) ==
    IF "Name" \notin df.cols \/ "RecMean" \notin df.cols
    THEN info_tickers(df) ELSE {}

\* lines 180-203: the tickers handed to the worker pool, one fetch each: the
\* requested list as it is when the cache is empty, else a list without
\* repetitions. df is the loaded frame after init_last_updated.
tickers_to_update(df, tickers, now) ==
    IF df.rows = EmptyBag THEN SeqToBag(tickers)
    ELSE LET missing == Range(tickers) \ info_tickers(df)
             all == missing \cup expired(df, now) \cup missing_schema(df)
         IN SetToBag({t \in all : t \in Range(tickers)})

\* lines 244-262: the record a successful fetch_one returns
fetch_one(symbol, now) ==
    [Ticker |-> symbol, LastUpdated |-> now, fields |-> TRUE]

\* lines 265-268: the records of the fetches that returned one (fetch_one
\* returns None on any exception, line 263); got is the bag of their symbols
results_of(got, now) ==
    MapBag(got, LAMBDA t : fetch_one(t, now), BagToSet(got))

\* lines 270-275: the old rows of the fetched tickers dropped, the results
\* appended
merge_results(df, results) ==
    IF results = EmptyBag THEN df
    ELSE [cols |-> df.cols \cup AllCols,
          rows |-> FilterBag(df.rows,
                             LAMBDA r : r.Ticker \notin
                                {x.Ticker : x \in BagToSet(results)})
                   (+) results]

NoInfoCall == [kind |-> "none", pre |-> EmptyInfo, req |-> {}, upd |-> EmptyBag,
               got |-> EmptyBag, t |-> 0]

get_stock_info_data(tickers, got) ==
    LET loaded == cached_df(STOCK_INFO_FILE)
        df == init_last_updated(loaded, current_time)
        \* line 184: an empty cache starts over with the two base columns
        base == IF df.rows = EmptyBag
                THEN [cols |-> {"LastUpdated"}, rows |-> EmptyBag]
                ELSE df
        upd == tickers_to_update(df, tickers, current_time)
        results == results_of(got, current_time)
        out == merge_results(base, results)
    IN /\ got \sqsubseteq upd
       /\ STOCK_INFO_FILE' = IF results # EmptyBag THEN [st |-> "ok", df |-> out]
                             ELSE STOCK_INFO_FILE
       /\ info_df' = out
       /\ icall' = [kind |-> "call", pre |-> loaded, req |-> Range(tickers),
                    upd |-> upd, got |-> got, t |-> current_time]
       /\ UNCHANGED current_time
       /\ UNCHANGED <<price_vars, stage1_vars, vol_vars, turn_vars, view_vars>>

RECURSIVE SeqsUpTo(_, _)
SeqsUpTo(S, n) ==
    IF n = 0 THEN {<<>>}
    ELSE SeqsUpTo(S, n - 1)
           \cup {Append(q, x) : q \in {r \in SeqsUpTo(S, n - 1) : Len(r) = n - 1}, x \in S}

\* line 319: the candidates of the stage-1 screen, a non-empty list in which
\* a ticker listed twice in the sheet occurs twice
FetchInfo ==
    \E tickers \in SeqsUpTo(InfoSymbols, MaxReq) \ {<<>>} :
      \E got \in SubBag(SeqToBag(tickers)) :
        /\ get_stock_info_data(tickers, got)
        /\ UNCHANGED join_vars

\* time passes
ClockTick ==
    /\ current_time < MaxNow
    /\ current_time' = current_time + 1
    /\ UNCHANGED <<STOCK_INFO_FILE, info_df, icall>>
    /\ UNCHANGED <<price_vars, stage1_vars, vol_vars, ui_vars>>

\* the column sets of files an earlier version of the program left behind
LegacyCols == {{}, {"LastUpdated"}, {"LastUpdated", "Name"}, {"Name", "RecMean"}}

LegacyFiles ==
    {[st |-> "ok",
      df |-> [cols |-> c,
              rows |-> SetToBag({[Ticker |-> s,
                                  LastUpdated |-> IF "LastUpdated" \in c THEN 0 ELSE NaT,
                                  fields |-> FALSE] : s \in InfoSymbols})]] :
        c \in LegacyCols}

InfoStart ==
    /\ current_time = 0
    /\ STOCK_INFO_FILE \in {[st |-> "absent", df |-> EmptyInfo]} \cup LegacyFiles
    /\ info_df = EmptyInfo
    /\ icall = NoInfoCall

----------------------------------------------------------------------------
(* analyze_stage1, lines 128-159 *)

\* tail(60), lines 145-146, and the minimum history of line 143
WINDOW == 60

\* tail(20), line 153
VOL_WINDOW == 20

\* 0.20 and 0.85 of line 149, 1.03 of line 154, in hundredths
VCP_RANGE_PCT == 20

VCP_CLOSE_PCT == 85

VOL_SPIKE_PCT == 103

Stage1Symbols == {"A", "B", "Z"}

RECURSIVE SeqSum(_)
SeqSum(q) == IF q = <<>> THEN 0 ELSE Head(q) + SeqSum(Tail(q))

SeqMax(q) == CHOOSE x \in Range(q) : \A y \in Range(q) : y <= x

SeqMin(q) == CHOOSE x \in Range(q) : \A y \in Range(q) : x <= y

\* Series.tail(n)
tail(q, n) == IF Len(q) <= n THEN q ELSE SubSeq(q, Len(q) - n + 1, Len(q))

\* the n values before the last one
before_last(q, n) == tail(SubSeq(q, 1, Len(q) - 1), n)

\* lines 153-154 with the average taken over the 20 days before the latest
is_vol_spike_excl(v_series) ==
    v_series[Len(v_series)] * 100 * Len(before_last(v_series, VOL_WINDOW))
      > VOL_SPIKE_PCT * SeqSum(before_last(v_series, VOL_WINDOW))

\* lines 151-154: curr_vol > vol_20_avg * 1.03, the mean over tail(20), in
\* exact arithmetic
is_vol_spike(v_series) ==
    v_series[Len(v_series)] * 100 * Len(tail(v_series, VOL_WINDOW))
      > VOL_SPIKE_PCT * SeqSum(tail(v_series, VOL_WINDOW))

\* the non-strict reading of the two comparisons of line 149
is_vcp_nonstrict(c_series, h_series, l_series) ==
    LET h60 == SeqMax(tail(h_series, WINDOW))
        l60 == SeqMin(tail(l_series, WINDOW))
        curr_price == c_series[Len(c_series)]
    IN /\ (h60 - l60) * 100 <= VCP_RANGE_PCT * h60
       /\ curr_price * 100 >= VCP_CLOSE_PCT * h60

\* lines 145-149, in exact arithmetic (h60 > 0)
is_vcp(c_series, h_series, l_series) ==
    LET h60 == SeqMax(tail(h_series, WINDOW))
        l60 == SeqMin(tail(l_series, WINDOW))
        curr_price == c_series[Len(c_series)]
    IN /\ (h60 - l60) * 100 < VCP_RANGE_PCT * h60
       /\ curr_price * 100 > VCP_CLOSE_PCT * h60

\* lines 140-157 for one symbol: the candidate rows it adds
candidate(md, symbol) ==
    LET c_series == md[symbol].Close
    IN IF Len(c_series) < WINDOW THEN <<>>
       ELSE IF is_vcp(c_series, md[symbol].High, md[symbol].Low)
            THEN <<[Ticker |-> symbol, VCP |-> TRUE,
                    Vol_Spike |-> is_vol_spike(md[symbol].Volume),
                    Price |-> c_series[Len(c_series)]]>>
            ELSE <<>>

RECURSIVE candidates(_, _)
candidates(md, valid_tickers) ==
    IF valid_tickers = <<>> THEN <<>>
    ELSE candidate(md, Head(valid_tickers)) \o candidates(md, Tail(valid_tickers))

\* md is the snapshot as a function from its symbols to their series
analyze_stage1(md, tks) ==
    IF DOMAIN md = {} THEN <<>>
    ELSE candidates(md, SelectSeq(tks, LAMBDA t : t \in DOMAIN md))

Screen ==
    /\ s_pc = "input"
    /\ stage1_df' = analyze_stage1(market, s_tickers)
    /\ s_pc' = "done"
    /\ UNCHANGED <<market, s_tickers>>
    /\ UNCHANGED <<price_vars, info_vars, vol_vars, ui_vars>>

\* a series of n days: level everywhere, except old on the day just outside
\* the last `window` days and last on the latest day
Series(n, window, level, old, last) ==
    [k \in 1..n |-> IF k = n THEN last
                    ELSE IF k = n - window THEN old
                    ELSE level]

SeriesOf(n, low, close, oldvol, vol) ==
    [Close |-> Series(n, WINDOW, 90, 90, close),
     High |-> Series(n, WINDOW, 100, 200, 100),
     Low |-> Series(n, WINDOW, low, 1, low),
     Volume |-> Series(n, VOL_WINDOW, 1000, oldvol, vol)]

SeriesA ==
    {SeriesOf(n, low, close, oldvol, vol) :
        n \in {59, 60, 61}, low \in {80, 81}, close \in {85, 86},
        oldvol \in {1000, 3000}, vol \in {1030, 1031, 1032, 1100}}

SeriesB ==
    {SeriesOf(60, low, 86, 1000, vol) : low \in {80, 81}, vol \in {1030, 1031}}

Snapshots ==
    {[s \in {"A"} |-> a] : a \in SeriesA}
      \cup {[s \in {"A", "B"} |-> IF s = "A" THEN a ELSE b] :
              a \in {x \in SeriesA : Len(x.Close) = 61}, b \in SeriesB}

Stage1Start ==
    /\ market \in Snapshots
    /\ s_tickers \in {<<"A">>, <<"A", "B">>, <<"B", "A">>, <<"Z", "A">>}
    /\ stage1_df = <<>>
    /\ s_pc = "input"

Stage1Idle ==
    /\ market = <<>>
    /\ s_tickers = <<>>
    /\ stage1_df = <<>>
    /\ s_pc = "done"

----------------------------------------------------------------------------
(* mystock_volume.py, the analysis loop, lines 45-161 *)
(* A code is the sequence of its characters.                               *)

Digits == {"0", "1", "2", "3", "4", "5", "6", "7", "8", "9"}

\* str.isdigit
isdigit(q) == q # <<>> /\ \A k \in 1..Len(q) : q[k] \in Digits

\* str.endswith
endswith(q, suffix) ==
    Len(q) >= Len(suffix) /\ SubSeq(q, Len(q) - Len(suffix) + 1, Len(q)) = suffix

\* str.strip
RECURSIVE strip(_)
strip(q) ==
    IF q = <<>> THEN q
    ELSE IF Head(q) = " " THEN strip(Tail(q))
    ELSE IF q[Len(q)] = " " THEN strip(SubSeq(q, 1, Len(q) - 1))
    ELSE q

DOT_KR == <<".", "K", "R">>

DOT_KS == <<".", "K", "S">>

DOT_KQ == <<".", "K", "Q">>

\* lines 49-51
clean_code(raw_code) ==
    LET code == strip(raw_code)
    IN IF endswith(code, DOT_KR) /\ Len(code) = 9 /\ isdigit(SubSeq(code, 1, 6))
       THEN SubSeq(code, 1, 6)
       ELSE code

\* lines 59-65
symbols_to_try(code) ==
    IF isdigit(code) /\ Len(code) = 6
    THEN <<code \o DOT_KS, code \o DOT_KQ>>
    ELSE <<code>>

\* what the provider may answer to t.history: it raises, or returns a frame
\* of so many rows
HistKinds ==
    {[raises |-> TRUE, rows |-> 0]}
      \cup {[raises |-> FALSE, rows |-> n] : n \in {0, 20, 21, 22}}

\* line 84
min_rows(d1) == IF d1 THEN 22 ELSE 21

\* the loop of lines 71-80 without its break: every candidate is fetched and
\* the last one with rows is kept
RECURSIVE history_loop_no_break(_, _, _)
history_loop_no_break(syms, hist, k) ==
    IF k > Len(syms) THEN [fetched |-> Len(syms), found |-> 0, raised |-> FALSE]
    ELSE IF hist[k].raises THEN [fetched |-> k, found |-> 0, raised |-> TRUE]
    ELSE LET rest == history_loop_no_break(syms, hist, k + 1)
         IN IF rest.raised \/ rest.found # 0 \/ hist[k].rows = 0 THEN rest
            ELSE [rest EXCEPT !.found = k]

\* lines 71-80 from candidate k on: hist[k] is what the provider answers for
\* candidate k (it raises, or returns so many rows). fetched: how many
\* candidates were asked for; found: the one whose history was taken, 0 for
\* none.
RECURSIVE history_loop(_, _, _)
history_loop(syms, hist, k) ==
    IF k > Len(syms) THEN [fetched |-> Len(syms), found |-> 0, raised |-> FALSE]
    ELSE IF hist[k].raises THEN [fetched |-> k, found |-> 0, raised |-> TRUE]
    ELSE IF hist[k].rows > 0 THEN [fetched |-> k, found |-> k, raised |-> FALSE]
    ELSE history_loop(syms, hist, k + 1)

NoLog == [kind |-> "none", raw |-> <<>>, hist |-> <<>>, fetched |-> 0,
          final_symbol |-> <<>>, at |-> 0]

\* one pass of the loop body, lines 45-161
analyze_ticker(hist, info_ok) ==
    LET raw_code == v_tickers[v_i + 1]
        code == clean_code(raw_code)
        syms == symbols_to_try(code)
        r == history_loop(syms, hist, 1)
        rows == IF r.found = 0 THEN 0 ELSE hist[r.found].rows
        final_symbol == IF r.found = 0 THEN code ELSE syms[r.found]
        kind == IF r.raised THEN "error"               \* lines 158-159
                ELSE IF rows = 0 \/ rows < min_rows(use_d_minus_1)
                     THEN "warning"                    \* lines 86-88
                ELSE "result"
        \* lines 90-97: a failed info lookup leaves the code as the name
        name == IF info_ok THEN <<"n">> \o final_symbol ELSE code
    IN /\ hist \in [1..Len(syms) -> HistKinds]
       /\ (kind # "result" => info_ok)
       /\ v_results' = IF kind = "result"
                     THEN Append(v_results, [Ticker |-> final_symbol, Name |-> name])
                     ELSE v_results
       /\ vlog' = [kind |-> kind, raw |-> raw_code, hist |-> hist,
                   fetched |-> r.fetched, final_symbol |-> final_symbol, at |-> v_i]
       /\ v_i' = v_i + 1
       /\ UNCHANGED <<v_tickers, use_d_minus_1, v_pc>>
       /\ UNCHANGED <<price_vars, info_vars, stage1_vars, ui_vars>>

ProcessTicker ==
    /\ v_pc = "loop"
    /\ v_i < Len(v_tickers)
    /\ \E n \in 1..2 : \E hist \in [1..n -> HistKinds] : \E info_ok \in BOOLEAN :
         analyze_ticker(hist, info_ok)

\* lines 163-179
ShowResults ==
    /\ v_pc = "loop"
    /\ v_i = Len(v_tickers)
    /\ v_pc' = "shown"
    /\ UNCHANGED <<v_tickers, use_d_minus_1, v_i, v_results, vlog>>
    /\ UNCHANGED <<price_vars, info_vars, stage1_vars, ui_vars>>

RawCodes ==
    {<<"0", "0", "5", "4", "9", "0">>,
     <<"0", "0", "5", "9", "3", "0", ".", "K", "R">>,
     <<"0", "3", "5", "7", "2", "0", ".", "K", "Q">>,
     <<"V", "A", "L", "E">>}

\* the button of line 30 with a non-empty list (line 31)
VolStart ==
    /\ v_tickers \in SeqsUpTo(RawCodes, MaxTickers) \ {<<>>}
    /\ use_d_minus_1 \in BOOLEAN
    /\ v_i = 0
    /\ v_results = <<>>
    /\ vlog = NoLog
    /\ v_pc = "loop"

VolIdle ==
    /\ v_tickers = <<>>
    /\ use_d_minus_1 = FALSE
    /\ v_i = 0
    /\ v_results = <<>>
    /\ vlog = NoLog
    /\ v_pc = "shown"

----------------------------------------------------------------------------
(* fetch_one, the turnaround status, lines 215-225 *)

MaxQuarters == 3

\* a quarter whose net income the provider leaves blank (NaN)
NI_NaN == -999999

NetIncomes == {NI_NaN, -10, -5, 0, 10, 50, 100}

\* float comparisons: every comparison with NaN is False
gt(a, b) == a # NI_NaN /\ b # NI_NaN /\ a > b

le(a, b) == a # NI_NaN /\ b # NI_NaN /\ a <= b

\* lines 217-225; fin.has_ni: the frame is not empty and has a 'Net Income'
\* row, fin.ni: that row, the latest quarter first
turnaround(fin) ==
    IF ~fin.has_ni \/ Len(fin.ni) < 2 THEN "N/A"
    ELSE LET rec == fin.ni[1]
             prev == fin.ni[2]
         IN IF gt(rec, 0) /\ gt(prev, 0)
            THEN (IF gt(rec, prev) THEN "Profit Growth" ELSE "Profit (Declining)")
            ELSE IF gt(rec, 0) /\ le(prev, 0) THEN "Turn to Black"
            ELSE IF le(rec, 0) /\ le(prev, 0)
                 THEN (IF gt(rec, prev) THEN "Deficit Reduction"
                       ELSE "Deficit (Worsening)")
            ELSE "Turn to Red"

ComputeTurnaround ==
    /\ t_pc = "input"
    /\ turnaround_status' = turnaround(financials)
    /\ t_pc' = "done"
    /\ UNCHANGED financials
    /\ UNCHANGED <<price_vars, info_vars, stage1_vars, vol_vars, join_vars, view_vars>>

\* what stock.quarterly_financials may hold
TurnStart ==
    /\ financials \in {[has_ni |-> FALSE, ni |-> <<>>]}
                        \cup {[has_ni |-> TRUE, ni |-> q] :
                                q \in SeqsUpTo(NetIncomes, MaxQuarters)}
    /\ turnaround_status = "N/A"
    /\ t_pc = "input"

TurnIdle ==
    /\ financials = [has_ni |-> FALSE, ni |-> <<>>]
    /\ turnaround_status = "N/A"
    /\ t_pc = "done"

----------------------------------------------------------------------------
(* The UI script, lines 311-331: the join of the candidates with the       *)
(* fundamentals                                                            *)

\* lines 323-326: every fundamental field of the candidate is None
NullInfo(t) == [Ticker |-> t, LastUpdated |-> NaT, fields |-> FALSE]

\* the records of info with the candidate's ticker
matching(info, t) == [r \in {x \in BagToSet(info.rows) : x.Ticker = t} |-> info.rows[r]]

\* line 322, pd.merge(stage1_df, info_df, on='Ticker', how='inner'): the
\* candidates in their order, each beside the records of its ticker; a
\* candidate without a record has no row
merge_inner(s1, info) ==
    SelectSeq([k \in 1..Len(s1) |->
                 [Ticker |-> s1[k].Ticker, Vol_Spike |-> s1[k].Vol_Spike,
                  info |-> matching(info, s1[k].Ticker)]],
              LAMBDA row : row.info # EmptyBag)

\* lines 321-326
join_candidates(s1, info) ==
    IF info.rows # EmptyBag
    THEN [kind |-> "merged", rows |-> merge_inner(s1, info)]
    ELSE [kind |-> "fallback",
          rows |-> [k \in 1..Len(s1) |->
                      [Ticker |-> s1[k].Ticker, Vol_Spike |-> s1[k].Vol_Spike,
                       info |-> SetToBag({NullInfo(s1[k].Ticker)})]]]

NoJoin == [kind |-> "none", rows |-> <<>>]

\* one run of the script past the screen: lines 317-326
JoinCandidates ==
    /\ s_pc = "done"
    /\ stage1_df # <<>>
    /\ LET candidate_tickers == [k \in 1..Len(stage1_df) |-> stage1_df[k].Ticker]
       IN \E got \in SubBag(SeqToBag(candidate_tickers)) :
            /\ get_stock_info_data(candidate_tickers, got)
            /\ joined_df' = join_candidates(stage1_df, info_df')

\* a series that passes the screen and one that sits on the 0.20 boundary
JoinSeries == {SeriesOf(60, 81, 86, 1000, 1100), SeriesOf(60, 80, 86, 1000, 1100)}

JoinSnapshots ==
    {[s \in {"A", "B"} |-> IF s = "A" THEN a ELSE b] : a, b \in JoinSeries}

JoinStart ==
    /\ market \in JoinSnapshots
    /\ s_tickers \in {<<"A">>, <<"A", "B">>, <<"B", "A">>}
    /\ stage1_df = <<>>
    /\ s_pc = "input"
    /\ joined_df = NoJoin

JoinIdle == joined_df = NoJoin

----------------------------------------------------------------------------
(* The UI script, the filter block, lines 358-370 *)

MaxRows == 2

\* a fundamental field that is None / NaN
NoValue == -12345

\* fillna(0) for PER and PBR, fillna(-999) for the growth fields
FILL_RATIO == 0

FILL_GROWTH == -999

fillna(x, fill) == IF x = NoValue THEN fill ELSE x

\* the rows final_df may hold once Inst_Support is set (line 331)
ViewRows ==
    {[Ticker |-> "A", Sector |-> "Tech", Turnaround |-> "Turn to Black",
      Inst_Support |-> TRUE, PER |-> 10, PBR |-> 2, RevGrowth |-> 0, EPSGrowth |-> 1],
     [Ticker |-> "B", Sector |-> "Tech", Turnaround |-> "N/A",
      Inst_Support |-> FALSE, PER |-> 9, PBR |-> 2, RevGrowth |-> 2, EPSGrowth |-> 1],
     [Ticker |-> "C", Sector |-> "Fin", Turnaround |-> "Turn to Black",
      Inst_Support |-> TRUE, PER |-> 100, PBR |-> 20, RevGrowth |-> -1, EPSGrowth |-> 5],
     [Ticker |-> "D", Sector |-> "Fin", Turnaround |-> "N/A",
      Inst_Support |-> TRUE, PER |-> NoValue, PBR |-> NoValue, RevGrowth |-> 1, EPSGrowth |-> 1],
     [Ticker |-> "E", Sector |-> "Tech", Turnaround |-> "Turn to Black",
      Inst_Support |-> FALSE, PER |-> 50, PBR |-> 2, RevGrowth |-> NoValue,
      EPSGrowth |-> NoValue],
     [Ticker |-> "F", Sector |-> "Tech", Turnaround |-> "Turn to Black",
      Inst_Support |-> TRUE, PER |-> 101, PBR |-> 21, RevGrowth |-> 3, EPSGrowth |-> 6]}

\* the same row in a frame that has no PER, PBR, RevGrowth, EPSGrowth column
without_metrics(r) ==
    [r EXCEPT !.PER = NoValue, !.PBR = NoValue, !.RevGrowth = NoValue,
              !.EPSGrowth = NoValue]

\* the ranges with their ends left out
in_range_open(x, rng) == rng[1] < x /\ x < rng[2]

\* (x >= rng[0]) & (x <= rng[1]), lines 366-369
in_range(x, rng) == rng[1] <= x /\ x <= rng[2]

\* lines 365-370
numeric_mask(r, w) ==
    /\ in_range(fillna(r.PER, FILL_RATIO), w.f_pe)
    /\ in_range(fillna(r.PBR, FILL_RATIO), w.f_pbr)
    /\ in_range(fillna(r.RevGrowth, FILL_GROWTH), w.f_rg)
    /\ in_range(fillna(r.EPSGrowth, FILL_GROWTH), w.f_eg)

\* lines 358-370: fd is final_df (has_PER: it has the PER column), w the
\* values of the widgets
filter_view(fd, w) ==
    LET v0 == fd.rows
        v1 == IF w.selected_sectors # {}
              THEN SelectSeq(v0, LAMBDA r : r.Sector \in w.selected_sectors) ELSE v0
        v2 == IF w.selected_turnaround # {}
              THEN SelectSeq(v1, LAMBDA r : r.Turnaround \in w.selected_turnaround)
              ELSE v1
        v3 == IF w.support_only THEN SelectSeq(v2, LAMBDA r : r.Inst_Support) ELSE v2
    IN IF fd.has_PER THEN SelectSeq(v3, LAMBDA r : numeric_mask(r, w)) ELSE v3

ApplyFilters ==
    /\ f_pc = "input"
    /\ view' = filter_view(filt.final_df, filt.widgets)
    /\ f_pc' = "done"
    /\ UNCHANGED filt
    /\ UNCHANGED <<price_vars, info_vars, stage1_vars, vol_vars, turn_vars, join_vars>>

\* the frames of the join: with the metric columns, or (a cache of the
\* older schema whose refresh failed) without them
FinalFrames ==
    LET seqs == SeqsUpTo(ViewRows, MaxRows) \ {<<>>}
    IN {[has_PER |-> TRUE, rows |-> q] : q \in seqs}
         \cup {[has_PER |-> FALSE,
                rows |-> [k \in 1..Len(q) |-> without_metrics(q[k])]] : q \in seqs}

\* what the sliders, the multiselects and the checkbox of lines 348-356 may
\* be set to
Widgets ==
    [selected_sectors : {{}, {"Tech"}},
     selected_turnaround : {{}, {"Turn to Black"}},
     support_only : BOOLEAN,
     f_pe : {<<0, 100>>, <<10, 50>>},
     f_pbr : {<<0, 20>>},
     f_rg : {<<-1, 2>>, <<0, 2>>},
     f_eg : {<<-1, 5>>}]

ViewStart ==
    /\ filt \in [final_df : FinalFrames, widgets : Widgets]
    /\ view = <<>>
    /\ f_pc = "input"

ViewIdle ==
    /\ filt = [final_df |-> [has_PER |-> TRUE, rows |-> <<>>],
               widgets |-> [selected_sectors |-> {}, selected_turnaround |-> {},
                            support_only |-> FALSE, f_pe |-> <<0, 100>>,
                            f_pbr |-> <<0, 20>>, f_rg |-> <<-1, 2>>, f_eg |-> <<-1, 5>>]]
    /\ view = <<>>
    /\ f_pc = "done"

UiIdle == TurnIdle /\ JoinIdle /\ ViewIdle

PriceStart ==
    /\ today = 1
    /\ provLast = 1
    /\ DAILY_DATA_FILE = [st |-> "absent", df |-> EmptyDF]
    /\ mk_data = EmptyDF
    /\ pcall = NoCall

InfoIdle ==
    /\ current_time = 0
    /\ STOCK_INFO_FILE = [st |-> "absent", df |-> EmptyInfo]
    /\ info_df = EmptyInfo
    /\ icall = NoInfoCall

PriceInit == PriceStart /\ InfoIdle /\ Stage1Idle /\ VolIdle /\ UiIdle

PriceNext == LoadAndUpdate \/ NextDay \/ NewTradingDay

SpecPrice == PriceInit /\ [][PriceNext]_vars

InfoInit == InfoStart /\ PriceStart /\ Stage1Idle /\ VolIdle /\ UiIdle

InfoNext == FetchInfo \/ ClockTick

SpecInfo == InfoInit /\ [][InfoNext]_vars

Stage1Init == Stage1Start /\ PriceStart /\ InfoIdle /\ VolIdle /\ UiIdle

Stage1Next == Screen

SpecStage1 == Stage1Init /\ [][Stage1Next]_vars

VolInit == VolStart /\ PriceStart /\ InfoIdle /\ Stage1Idle /\ UiIdle

VolNext == ProcessTicker \/ ShowResults

SpecVolume == VolInit /\ [][VolNext]_vars

TurnInit == TurnStart /\ PriceStart /\ InfoIdle /\ Stage1Idle /\ VolIdle /\ JoinIdle /\ ViewIdle

TurnNext == ComputeTurnaround

SpecTurnaround == TurnInit /\ [][TurnNext]_vars

JoinInit == JoinStart /\ InfoStart /\ PriceStart /\ VolIdle /\ TurnIdle /\ ViewIdle

JoinNext == Screen \/ JoinCandidates \/ ClockTick

SpecJoin == JoinInit /\ [][JoinNext]_vars

ViewInit == ViewStart /\ PriceStart /\ InfoIdle /\ Stage1Idle /\ VolIdle /\ TurnIdle /\ JoinIdle

ViewNext == ApplyFilters

SpecView == ViewInit /\ [][ViewNext]_vars

----------------------------------------------------------------------------
(* Claims about the price cache *)

own_dates(md, s) == {d \in Dates(md) : Cell(md, d, s) # NaN}

own_last_date(md, s) == CHOOSE x \in own_dates(md, s) : \A y \in own_dates(md, s) : y <= x

\* C1: a write of the merged snapshot that fails or is interrupted leaves the
\* previously persisted snapshot loadable as it was.
C1_FailedWriteKeepsSnapshot ==
    [][pcall'.oc \in {"open_failed", "dump_failed"}
         => market_data(DAILY_DATA_FILE') = market_data(DAILY_DATA_FILE)]_vars

\* C2: a requested symbol already in the snapshot whose own last cached date
\* is before today gets the window from its own last date + 1, and after the
\* call (no fetch failing) it has a row for every later provider day.
C2_PerSymbolWindow ==
    [][\A t \in (SUBSET PriceSymbols) \ {{}} : \A e \in BOOLEAN :
         update_market_data(t, {}, e, "ok") =>
           LET md == market_data(DAILY_DATA_FILE)
           IN \A s \in t \cap md.cols :
                (~IsEmpty(md) /\ own_dates(md, s) # {} /\ own_last_date(md, s) < today)
                  => /\ requested_start(md, t, today) = own_last_date(md, s) + 1
                     /\ \A d \in (own_last_date(md, s) + 1)..provLast :
                          Cell(mk_data', d, s) # NaN]_vars

\* C3: when the fetched incremental window overlaps cached dates, every
\* fetched symbol's cell on a duplicated date holds the fetched row's value
\* in the returned and persisted snapshot, and no date occurs twice.
C3_OverlapNewestWins ==
    pcall.oc = "ok" =>
      /\ \A d \in pcall.dup : \A s \in pcall.upd.cols :
            /\ Cell(mk_data, d, s) = Cell(pcall.upd, d, s)
            /\ Cell(market_data(DAILY_DATA_FILE), d, s) = Cell(pcall.upd, d, s)
      /\ Cardinality(Dates(mk_data)) = Len(mk_data.rows)

\* C3 witness: a completed call merged a window that overlapped cached dates
\* and carried a value different from the cached one.
C3_Witness == pcall.oc = "ok" /\ pcall.dup # {} /\ pcall.won

\* C4: a second call with the same symbols, the provider unchanged and no
\* new trading day, returns and persists the snapshot of the first.
C4_RefreshIdempotent ==
    [][\A t \in (SUBSET PriceSymbols) \ {{}} : \A f \in SUBSET t : \A e \in BOOLEAN :
         update_market_data(t, f, e, "ok") =>
           LET md2 == market_data(DAILY_DATA_FILE')
               again == final_df(md2, t, today, provLast, f, e)
           IN /\ again = mk_data'
              /\ (~IsEmpty(again) => again = md2)]_vars

\* C5: when the fetch fails for some but not all of the symbols a call asks
\* for, the call completes, the fetched symbols' rows are in the returned and
\* persisted snapshot, and no cell cached before is lost.
C5_PartialFailureKeepsData ==
    [][\A t \in (SUBSET PriceSymbols) \ {{}} : \A f \in SUBSET t : \A e \in BOOLEAN :
         (/\ update_market_data(t, f, e, "ok")
          /\ f \cap attempted(market_data(DAILY_DATA_FILE), t, today) # {}
          /\ attempted(market_data(DAILY_DATA_FILE), t, today) \ f # {}) =>
           LET md == market_data(DAILY_DATA_FILE)
               n == new_df(md, t, today, provLast, f)
               u == update_df(md, t, today, provLast, f, e)
           IN /\ market_data(DAILY_DATA_FILE') = mk_data'
              /\ \A d \in Dates(n) : \A s \in n.cols \ f :
                    Cell(mk_data', d, s) = Cell(n, d, s)
              /\ \A d \in Dates(u) : \A s \in u.cols \ f :
                    Cell(mk_data', d, s) = Cell(u, d, s)
              /\ \A d \in Dates(md) : \A s \in md.cols :
                    Cell(md, d, s) # NaN => Cell(mk_data', d, s) # NaN]_vars

----------------------------------------------------------------------------
(* Claims about the fundamentals cache *)

\* the frame the call worked on: what it loaded, after lines 177-178
icall_df == init_last_updated(icall.pre, icall.t)

\* C6: the fetched set is exactly the requested symbols that are missing
\* from the cache, or whose record is more than seven days old, or all the
\* requested symbols in the cache when its schema lacks a required column.
C6_RefreshSetExact ==
    icall.kind = "call" =>
      BagToSet(icall.upd) =
        {s \in icall.req :
           \/ s \notin info_tickers(icall.pre)
           \/ \E r \in BagToSet(icall_df.rows) :
                r.Ticker = s /\ icall.t - r.LastUpdated > TTL_DAYS
           \/ "Name" \notin icall.pre.cols \/ "RecMean" \notin icall.pre.cols}

\* C6 witness: one call asked for a record exactly seven days old and left it
\* alone, and for one a day older and fetched it.
C6_Witness ==
    /\ icall.kind = "call"
    /\ \E x, y \in BagToSet(icall.pre.rows) :
         /\ x.LastUpdated = icall.t - TTL_DAYS
         /\ x.Ticker \in icall.req \ BagToSet(icall.upd)
         /\ y.LastUpdated = icall.t - TTL_DAYS - 1
         /\ y.Ticker \in icall.req \cap BagToSet(icall.upd)

\* C7: a call on a cache whose schema lacks Name or RecMean fetches every
\* entry of the cache, and when all its fetches succeed no record of the
\* cache lacks the fields.
C7_SchemaMigrationWholeCache ==
    (/\ icall.kind = "call"
     /\ icall.pre.rows # EmptyBag
     /\ "Name" \notin icall.pre.cols \/ "RecMean" \notin icall.pre.cols
     /\ icall.got = icall.upd)
      => /\ info_tickers(icall.pre) \subseteq BagToSet(icall.upd)
         /\ \A r \in BagToSet(cached_df(STOCK_INFO_FILE).rows) : r.fields

\* C8: the cache holds at most one record per symbol, and the record of a
\* symbol whose fetch succeeded is the fetched one.
C8_OneRecordPerSymbol ==
    LET rows == cached_df(STOCK_INFO_FILE).rows
    IN /\ \A r \in BagToSet(rows) :
            /\ rows[r] = 1
            /\ \A q \in BagToSet(rows) : q.Ticker = r.Ticker => q = r
       /\ icall.kind = "call" =>
            \A s \in BagToSet(icall.got) :
              \A r \in BagToSet(rows) :
                r.Ticker = s => r = fetch_one(s, icall.t)

----------------------------------------------------------------------------
(* Claims about the stage-1 screen *)

\* C10: the volume-spike flag of a candidate is true iff its latest volume
\* is more than 1.03 times the mean of the 20 volumes before the latest one.
C10_VolSpikeExcludesLatest ==
    s_pc = "done" =>
      \A k \in 1..Len(stage1_df) :
        stage1_df[k].Vol_Spike = is_vol_spike_excl(market[stage1_df[k].Ticker].Volume)

\* the claim's contraction test on the last 60 days of a symbol's series:
\* (max High - min Low) / max High < 0.20 and latest close > 0.85 * max High
contraction_60d(x) ==
    LET maxHigh == SeqMax(tail(x.High, 60))
        minLow == SeqMin(tail(x.Low, 60))
    IN /\ 100 * (maxHigh - minLow) < 20 * maxHigh
       /\ 100 * x.Close[Len(x.Close)] > 85 * maxHigh

\* the requested symbols the claim lets through
passes_stage1(t) ==
    /\ t \in DOMAIN market
    /\ Len(market[t].Close) >= 60
    /\ contraction_60d(market[t])

\* C11: the screen returns exactly the requested symbols that are in the
\* snapshot, have at least 60 closing prices and pass the contraction test
\* (both comparisons strict), in the order in which they were requested.
C11_Stage1ExactCandidates ==
    s_pc = "done" =>
      [k \in 1..Len(stage1_df) |-> stage1_df[k].Ticker]
        = SelectSeq(s_tickers, passes_stage1)

\* C11 witness: B, requested first, sits exactly on the 0.20 boundary and is
\* left out, and A, requested after it, is returned.
C11_Witness ==
    /\ s_pc = "done"
    /\ s_tickers = <<"B", "A">>
    /\ "B" \in DOMAIN market
    /\ 100 * (SeqMax(tail(market["B"].High, 60)) - SeqMin(tail(market["B"].Low, 60)))
         = 20 * SeqMax(tail(market["B"].High, 60))
    /\ Len(stage1_df) = 1
    /\ stage1_df[1].Ticker = "A"


----------------------------------------------------------------------------
(* Claims about the turnaround status *)

positive(x) == x # NI_NaN /\ x > 0

\* the claim's classification of (recent, previous), a blank quarter read as
\* not positive
claimed_status(recent, previous) ==
    IF positive(recent) /\ positive(previous)
    THEN (IF recent > previous THEN "Profit Growth" ELSE "Profit (Declining)")
    ELSE IF positive(recent) THEN "Turn to Black"
    ELSE IF positive(previous) THEN "Turn to Red"
    ELSE IF recent # NI_NaN /\ previous # NI_NaN /\ recent > previous
         THEN "Deficit Reduction"
    ELSE "Deficit (Worsening)"

\* C12: the status is the claim's classification of the two most recent
\* quarterly net incomes, and N/A with fewer than two data points or no
\* net-income row. A blank quarter may be read either as a value that is
\* not positive or as a data point that is not there.
C12_TurnaroundClassification ==
    t_pc = "done" =>
      IF ~financials.has_ni \/ Len(financials.ni) < 2
      THEN turnaround_status = "N/A"
      ELSE \/ turnaround_status = claimed_status(financials.ni[1], financials.ni[2])
           \/ /\ NI_NaN \in {financials.ni[1], financials.ni[2]}
              /\ turnaround_status = "N/A"

----------------------------------------------------------------------------
(* Claims about the join *)

\* C13: every screening candidate has a row in the joined set, a candidate
\* without a fundamentals record included.
C13_JoinKeepsEveryCandidate ==
    joined_df.kind # "none" =>
      \A k \in 1..Len(stage1_df) :
        \E j \in 1..Len(joined_df.rows) :
          joined_df.rows[j].Ticker = stage1_df[k].Ticker

----------------------------------------------------------------------------
(* Claims about the filter block *)

\* a missing value read as the claim reads it
read_as(x, d) == IF x = NoValue THEN d ELSE x

categorical_ok(r) ==
    /\ filt.widgets.selected_sectors # {} => r.Sector \in filt.widgets.selected_sectors
    /\ filt.widgets.selected_turnaround # {}
         => r.Turnaround \in filt.widgets.selected_turnaround
    /\ filt.widgets.support_only => r.Inst_Support

ranges_ok(r) ==
    /\ filt.widgets.f_pe[1] <= read_as(r.PER, 0) /\ read_as(r.PER, 0) <= filt.widgets.f_pe[2]
    /\ filt.widgets.f_pbr[1] <= read_as(r.PBR, 0) /\ read_as(r.PBR, 0) <= filt.widgets.f_pbr[2]
    /\ filt.widgets.f_rg[1] <= read_as(r.RevGrowth, -999)
    /\ read_as(r.RevGrowth, -999) <= filt.widgets.f_rg[2]
    /\ filt.widgets.f_eg[1] <= read_as(r.EPSGrowth, -999)
    /\ read_as(r.EPSGrowth, -999) <= filt.widgets.f_eg[2]

satisfies_all(r) == categorical_ok(r) /\ ranges_ok(r)

satisfies_all_guarded(r) == categorical_ok(r) /\ (filt.final_df.has_PER => ranges_ok(r))

\* C14: the view is the rows of the joined frame, in their order, that
\* satisfy every active categorical filter and the four inclusive ranges,
\* missing PER/PBR read as 0 and missing growth as -999.
C14_ViewAllFilters ==
    f_pc = "done" => view = SelectSeq(filt.final_df.rows, satisfies_all)

\* C14 as amended: as above, the four ranges being applied only when the
\* joined frame has a PER column.
C14_ViewAllFiltersWhenPER ==
    f_pc = "done" => view = SelectSeq(filt.final_df.rows, satisfies_all_guarded)

\* C14 witness: a frame without the PER column whose rows, all outside the
\* growth range once read as -999, are in the view, behind an active sector
\* filter that removed a row.
C14_Witness ==
    /\ f_pc = "done"
    /\ ~filt.final_df.has_PER
    /\ filt.widgets.selected_sectors # {}
    /\ view # <<>>
    /\ Len(view) < Len(filt.final_df.rows)
    /\ \A k \in 1..Len(view) : ~ranges_ok(view[k])

----------------------------------------------------------------------------
(* Claims about the volume-analysis loop *)

vlog_syms == symbols_to_try(clean_code(vlog.raw))

\* the candidates with rows, and with at least the minimum rows
vlog_nonempty == {k \in 1..Len(vlog_syms) : vlog.hist[k].rows > 0}

vlog_qualifying ==
    {k \in 1..Len(vlog_syms) : vlog.hist[k].rows >= min_rows(use_d_minus_1)}

First(S) == CHOOSE k \in S : \A m \in S : k <= m

no_raise == \A k \in 1..Len(vlog_syms) : ~vlog.hist[k].raises

\* C9: the first candidate with at least the minimum rows is the resolved
\* symbol and the last one fetched; a candidate with fewer rows does not stop
\* the search; a ticker without such a candidate is skipped with a warning
\* and the loop goes on.
C9_FirstQualifyingCandidate ==
    (vlog.kind # "none" /\ no_raise) =>
      /\ v_i = vlog.at + 1
      /\ IF vlog_qualifying # {}
         THEN /\ vlog.kind = "result"
              /\ vlog.final_symbol = vlog_syms[First(vlog_qualifying)]
              /\ vlog.fetched = First(vlog_qualifying)
         ELSE /\ vlog.kind = "warning"
              /\ vlog.fetched = Len(vlog_syms)

\* C9 as amended: the first candidate with any rows ends the search and is
\* the resolved symbol; the ticker is skipped with a warning when that
\* candidate has fewer than the minimum rows or no candidate has rows, with
\* an error when a fetch raises; the loop goes on in every case.
C9_FirstNonEmptyCandidate ==
    vlog.kind # "none" =>
      /\ v_i = vlog.at + 1
      /\ (v_pc = "loop" /\ v_i < Len(v_tickers)) => ENABLED ProcessTicker
      /\ vlog.kind = "error" <=> vlog.hist[vlog.fetched].raises
      /\ \A k \in 1..(vlog.fetched - 1) :
            ~vlog.hist[k].raises /\ vlog.hist[k].rows = 0
      /\ no_raise =>
           IF vlog_nonempty # {}
           THEN /\ vlog.fetched = First(vlog_nonempty)
                /\ vlog.final_symbol = vlog_syms[First(vlog_nonempty)]
                /\ vlog.kind = "result"
                     <=> vlog.hist[First(vlog_nonempty)].rows >= min_rows(use_d_minus_1)
                /\ vlog.kind \in {"result", "warning"}
           ELSE /\ vlog.fetched = Len(vlog_syms)
                /\ vlog.kind = "warning"
      /\ vlog.kind = "result" =>
           /\ v_results # <<>>
           /\ v_results[Len(v_results)].Ticker = vlog.final_symbol

\* C9 witness: a 6-digit code whose .KS history has rows but too few and
\* whose .KQ history has enough: .KQ is not fetched, the ticker is skipped
\* with a warning.
C9_Witness ==
    /\ vlog.kind = "warning"
    /\ Len(vlog_syms) = 2
    /\ vlog.hist[1].rows > 0
    /\ vlog.hist[1].rows < min_rows(use_d_minus_1)
    /\ ~vlog.hist[2].raises
    /\ vlog.hist[2].rows >= min_rows(use_d_minus_1)
    /\ vlog.fetched = 1
    /\ v_i < Len(v_tickers)

\* the name lookup of lines 90-97 failed for the ticker just processed: its
\* result carries the code as its name
name_lookup_failed ==
    /\ vlog.kind = "result"
    /\ v_results # <<>>
    /\ v_results[Len(v_results)].Name = clean_code(vlog.raw)

\* a fetch for the ticker just processed failed: a history fetch raised, no
\* candidate returned rows, or the name lookup failed
fetch_failed ==
    \/ \E k \in 1..vlog.fetched : vlog.hist[k].raises
    \/ (vlog.fetched = Len(vlog_syms) /\ vlog_nonempty = {})
    \/ name_lookup_failed

\* C15: a ticker for which a fetch failed gets a warning or an error
\* message.
C15_EveryFailureHasMessage ==
    (vlog.kind # "none" /\ fetch_failed) => vlog.kind \in {"warning", "error"}

====
